---- MODULE Spec2Model ----
(***************************************************************************)
(* Lowering of the ONNX Gemm operator to a Krnl loop nest                  *)
(* (src/Conversion/ONNXToKrnl/Math/Gemm.cpp), together with the execution  *)
(* of the loop nest that the lowering emits.                               *)
(*                                                                         *)
(* The model has two layers.  Lower is ONNXGemmOpLowering::matchAndRewrite:*)
(* it turns one Gemm operator instance into a plan (loop bounds and access *)
(* functions).  The remaining actions execute the emitted plan over the    *)
(* operand buffers, one loop step at a time.                               *)
(***************************************************************************)
EXTENDS Integers, Sequences, FiniteSets, TLC

\* Largest size of any dimension of A, B and C.
MaxDim == 2

VARIABLES
    op,            \* the Gemm operator instance: attributes and operand types
    buf,           \* the buffers: operands A, B, C and the allocated result
    phase,         \* "lower", "run", "done", "aborted", "invalid", "par", "pardone"
    shapecomputed, \* result of shapeHelper.Compute: "none", "success", "failure"
    emitted,       \* what matchAndRewrite has emitted into the IR
    plan,          \* the emitted loop nest: bounds and access functions
    n, m, k,       \* induction variables of the emitted loops
    pc,            \* position inside the nest: "outer", "inner"
    reductionVal,  \* the scalar alloca of the current (n, m) body
    alphaAB,       \* the SSA value alpha * reduction of the last finished body
    access,        \* the buffer accesses made by the last step
    nred,          \* number of reduction steps executed
    nstore,        \* number of stores made to each result element
    round,         \* 1 for the first execution, 2 for a re-execution
    prev,          \* result buffer of the first execution
    pcP, kP, accP  \* per-body state of the unordered re-execution

vars == <<op, buf, phase, shapecomputed, emitted, plan, n, m, k, pc,
          reductionVal, alphaAB, access, nred, nstore, round, prev,
          pcP, kP, accP>>

----------------------------------------------------------------------------
(* Floating point values of the element type.  A value is a sign bit and a *)
(* magnitude; the finite values of the model are integers, which the       *)
(* element type represents exactly, next to the two zeros, the infinities  *)
(* and NaN.  Undef is the content of memory that was never stored to.      *)

Fin(s, mag) == [c |-> "fin", s |-> s, m |-> mag]
FromInt(i) == IF i < 0 THEN Fin(1, -i) ELSE Fin(0, i)
Inf(s)     == [c |-> "inf", s |-> s, m |-> 0]
NaN        == [c |-> "nan", s |-> 0, m |-> 0]
Undef      == [c |-> "undef", s |-> 0, m |-> 0]
NegZero    == Fin(1, 0)
Val(x)     == IF x.s = 1 THEN -x.m ELSE x.m
IsZero(x)  == x.c = "fin" /\ x.m = 0
Xor(a, b)  == IF a = b THEN 0 ELSE 1

\* MulFOp
MulF(x, y) ==
    IF x.c = "undef" \/ y.c = "undef" THEN Undef
    ELSE IF x.c = "nan" \/ y.c = "nan" THEN NaN
    ELSE IF x.c = "inf" \/ y.c = "inf"
         THEN IF IsZero(x) \/ IsZero(y) THEN NaN ELSE Inf(Xor(x.s, y.s))
    ELSE Fin(Xor(x.s, y.s), x.m * y.m)

\* AddFOp (round to nearest: an exact zero sum is +0 unless both are -0)
AddF(x, y) ==
    IF x.c = "undef" \/ y.c = "undef" THEN Undef
    ELSE IF x.c = "nan" \/ y.c = "nan" THEN NaN
    ELSE IF x.c = "inf" /\ y.c = "inf"
         THEN IF x.s = y.s THEN x ELSE NaN
    ELSE IF x.c = "inf" THEN x
    ELSE IF y.c = "inf" THEN y
    ELSE IF Val(x) + Val(y) # 0 THEN FromInt(Val(x) + Val(y))
    ELSE IF x.s = 1 /\ y.s = 1 THEN NegZero ELSE FromInt(0)

----------------------------------------------------------------------------
(* Buffers.  A buffer is a function from index tuples (0-based) to values. *)

IndexSpace(shape) ==
    IF Len(shape) = 0 THEN {<<>>}
    ELSE IF Len(shape) = 1 THEN {<<i>> : i \in 0..(shape[1] - 1)}
    ELSE {<<i, j>> : i \in 0..(shape[1] - 1), j \in 0..(shape[2] - 1)}

\* Row-major position of an index tuple in a buffer of the given shape.
Linear(shape, idx) ==
    IF Len(shape) = 0 THEN 0
    ELSE IF Len(shape) = 1 THEN idx[1]
    ELSE idx[1] * shape[2] + idx[2]

\* The buffer of the given shape holding base, base + step, base + 2*step, ...
Mat(shape, pat) ==
    [idx \in IndexSpace(shape) |-> FromInt(pat[1] + pat[2] * Linear(shape, idx))]

Fresh(shape) == [idx \in IndexSpace(shape) |-> Undef]

\* krnl_load: a load outside the buffer yields an undefined value.
Load(b, idx) == IF idx \in DOMAIN b THEN b[idx] ELSE Undef

\* krnl_store: a store outside the buffer is dropped.
StoreAt(b, idx, v) == IF idx \in DOMAIN b THEN [b EXCEPT ![idx] = v] ELSE b

----------------------------------------------------------------------------
(* The Gemm operator instance and the shape helper.                        *)

Shapes2 == {<<i, j>> : i \in 0..MaxDim, j \in 0..MaxDim}
CShapes == {<<>>} \cup {<<i>> : i \in 0..MaxDim} \cup Shapes2

\* gemmOp.alpha(), gemmOp.beta()
Alphas == {FromInt(-1), FromInt(1), FromInt(2)}
Betas  == {FromInt(3), Inf(0)}

\* Contents of the operand buffers: <<base, step>> in row-major order.
APatterns == {<<1, 1>>}
BPatterns == {<<5, 1>>}
CPatterns == {<<0, 0>>, <<1, 0>>, <<1, 1>>}

NoBuffer == [idx \in {} |-> Undef]

\* ONNXGemmOpShapeHelper: dimensions of A and B after the transposes.
aDims(o) == IF o.transA THEN <<o.aShape[2], o.aShape[1]>> ELSE o.aShape
bDims(o) == IF o.transB THEN <<o.bShape[2], o.bShape[1]>> ELSE o.bShape
dimsForOutput(o) == <<aDims(o)[1], bDims(o)[2]>>
hasBias(o) == o.hasBias
cRank(o) == Len(o.cShape)
\* Dimensions of C right-aligned against the output, padded with 1.
cDims(o) ==
    [x \in 1..2 |-> IF x > 2 - cRank(o) THEN o.cShape[x - (2 - cRank(o))] ELSE 1]

\* The shapes that the upstream shape inference lets through.
Validated(o) ==
    /\ aDims(o)[2] = bDims(o)[1]
    /\ o.hasBias =>
         \A x \in 1..2 : cDims(o)[x] = 1 \/ cDims(o)[x] = dimsForOutput(o)[x]

----------------------------------------------------------------------------
(* matchAndRewrite: the emitted plan.                                      *)

AllEmitted == {"alloc", "constants", "loops", "stores", "replaceOp"}

resAccessFct == <<"n", "m">>

aAccessFctNoTrans(o) == <<"n", "k">>
aAccessFct(o) == IF o.transA THEN <<"k", "n">> ELSE <<"n", "k">>

bAccessFctNoTrans(o) == <<"k", "m">>
bAccessFct(o) == IF o.transB THEN <<"m", "k">> ELSE <<"k", "m">>

\* IndexExpr::select(dim > 1, resAccessFct[x], 0)
SelectIndexPositive(dim, idx) == IF dim > 0 THEN idx ELSE "0"
SelectIndex(dim, idx) == IF dim > 1 THEN idx ELSE "0"

cAccessFctLeftAligned(o) ==
    IF hasBias(o)
    THEN [i \in 1..cRank(o) |-> SelectIndex(o.cShape[i], resAccessFct[i])]
    ELSE <<>>
cAccessFct(o) ==
    IF hasBias(o)
    THEN [i \in 1..cRank(o) |->
            SelectIndex(cDims(o)[i + 2 - cRank(o)], resAccessFct[i + 2 - cRank(o)])]
    ELSE <<>>

\* innerLoops.pushBounds(0, shapeHelper.aDims[1])
innerBoundPhysical(o) == o.aShape[2]
innerBound(o) == aDims(o)[2]

NoPlan ==
    [outerBounds |-> <<0, 0>>, innerBound |-> 0, aAccessFct |-> <<>>,
     bAccessFct |-> <<>>, cAccessFct |-> <<>>, hasBias |-> FALSE,
     alpha |-> Undef, beta |-> Undef, zero |-> Undef]

BuildPlan(o) ==
    [outerBounds |-> dimsForOutput(o), innerBound |-> innerBound(o),
     aAccessFct |-> aAccessFct(o), bAccessFct |-> bAccessFct(o),
     cAccessFct |-> cAccessFct(o), hasBias |-> hasBias(o),
     alpha |-> o.alpha, beta |-> o.beta, zero |-> FromInt(0)]

\* Value of an access function at the current induction variables.
Eval(fct, env) ==
    [i \in 1..Len(fct) |->
        CASE fct[i] = "n" -> env.n
          [] fct[i] = "m" -> env.m
          [] fct[i] = "k" -> env.k
          [] OTHER -> 0]

NoAccess == [kinds |-> {}, a |-> <<>>, b |-> <<>>, c |-> <<>>, res |-> <<>>]

Pairs(p) == IndexSpace(p.outerBounds)

----------------------------------------------------------------------------
Init ==
    \E tA \in BOOLEAN, tB \in BOOLEAN, aS \in Shapes2, bS \in Shapes2,
       hb \in BOOLEAN, cS \in CShapes :
      LET shapes == [transA |-> tA, transB |-> tB, aShape |-> aS, bShape |-> bS,
                     cShape |-> cS, hasBias |-> hb]
      IN
      /\ Validated(shapes)
      /\ ~hb => cS = <<>>
      /\ \E al \in Alphas, be \in Betas,
            aP \in APatterns, bP \in BPatterns, cP \in CPatterns :
           /\ ~hb => cP = <<0, 0>>
           /\ op = [transA |-> tA, transB |-> tB, aShape |-> aS, bShape |-> bS,
                    cShape |-> cS, hasBias |-> hb, alpha |-> al, beta |-> be]
           /\ buf = [A |-> Mat(aS, aP), B |-> Mat(bS, bP),
                     C |-> IF hb THEN Mat(cS, cP) ELSE NoBuffer,
                     res |-> NoBuffer]
      /\ phase = "lower"
      /\ shapecomputed = "none"
      /\ emitted = {}
      /\ plan = NoPlan
      /\ n = 0 /\ m = 0 /\ k = 0
      /\ pc = "outer"
      /\ reductionVal = Undef
      /\ alphaAB = Undef
      /\ access = NoAccess
      /\ nred = 0
      /\ nstore = [idx \in {} |-> 0]
      /\ round = 1
      /\ prev = NoBuffer
      /\ pcP = [idx \in {} |-> "entry"]
      /\ kP = [idx \in {} |-> 0]
      /\ accP = [idx \in {} |-> Undef]

parVars == <<pcP, kP, accP>>

\* matchAndRewrite.  The result of shapeHelper.Compute is an input; the
\* assertion on it stops the lowering in a build with assertions and is
\* compiled out otherwise, in which case the rewrite goes on with what the
\* helper holds.  A nest emitted after a failed Compute is not executed
\* ("invalid").
Lower ==
    /\ phase = "lower"
    /\ \E sc \in {"success", "failure"}, build \in {"assert", "ndebug"} :
         /\ shapecomputed' = sc
         /\ IF sc = "failure" /\ build = "assert"
            THEN /\ phase' = "aborted"
                 /\ UNCHANGED <<emitted, plan, buf, nstore>>
            ELSE /\ phase' = IF sc = "success" THEN "run" ELSE "invalid"
                 /\ emitted' = AllEmitted
                 /\ plan' = BuildPlan(op)
                 /\ buf' = [buf EXCEPT !.res = Fresh(dimsForOutput(op))]
                 /\ nstore' = [idx \in IndexSpace(dimsForOutput(op)) |-> 0]
    /\ n' = 0 /\ m' = 0 /\ k' = 0 /\ pc' = "outer" /\ nred' = 0
    /\ access' = NoAccess
    /\ UNCHANGED <<op, reductionVal, alphaAB, round, prev, parVars>>

----------------------------------------------------------------------------
(* The body of the emitted nest.                                           *)

\* Create a local reduction value for res[n,m] and store zero in it.
ZeroInitSkipped(old, zero) == old
ZeroInit(old, zero) == zero

\* One iteration of the inner loop.
ReductionStepVal(acc, env) ==
    AddF(acc, MulF(Load(buf.A, Eval(plan.aAccessFct, env)),
                   Load(buf.B, Eval(plan.bAccessFct, env))))

\* Calculate reduction(AB)*alpha.
Scale(acc) == MulF(plan.alpha, acc)

\* Res = AB*alpha + beta * C.
BiasCombineSum(scaled, c) == AddF(scaled, AddF(plan.beta, c))
BiasCombineNoBeta(scaled, c) == AddF(scaled, c)
BiasCombine(scaled, c) == AddF(scaled, MulF(plan.beta, c))

FinalVal(scaled, env) ==
    IF plan.hasBias
    THEN BiasCombine(scaled, Load(buf.C, Eval(plan.cAccessFct, env)))
    ELSE scaled

Env == [n |-> n, m |-> m, k |-> k]

\* Entry of the body of the (n, m) loops.
BodyEntry ==
    /\ phase = "run" /\ pc = "outer"
    /\ n < plan.outerBounds[1] /\ m < plan.outerBounds[2]
    /\ reductionVal' = ZeroInit(reductionVal, plan.zero)
    /\ k' = 0
    /\ pc' = "inner"
    /\ access' = NoAccess
    /\ UNCHANGED <<op, buf, phase, shapecomputed, emitted, plan, n, m, alphaAB,
                   nred, nstore, round, prev, parVars>>

\* One iteration of the k loop.
ReductionStep ==
    /\ phase = "run" /\ pc = "inner"
    /\ k < plan.innerBound
    /\ reductionVal' = ReductionStepVal(reductionVal, Env)
    /\ k' = k + 1
    /\ nred' = nred + 1
    /\ access' = [NoAccess EXCEPT !.kinds = {"loadA", "loadB"},
                                  !.a = Eval(plan.aAccessFct, Env),
                                  !.b = Eval(plan.bAccessFct, Env)]
    /\ UNCHANGED <<op, buf, phase, shapecomputed, emitted, plan, n, m, pc,
                   alphaAB, nstore, round, prev, parVars>>

\* The code after the k loop: scale, add the bias, store, next m.
PostReduction ==
    /\ phase = "run" /\ pc = "inner"
    /\ k >= plan.innerBound
    /\ alphaAB' = Scale(reductionVal)
    /\ buf' = [buf EXCEPT !.res =
                 StoreAt(@, Eval(resAccessFct, Env), FinalVal(alphaAB', Env))]
    /\ nstore' = [nstore EXCEPT ![Eval(resAccessFct, Env)] = @ + 1]
    /\ access' = [NoAccess EXCEPT
                    !.kinds = IF plan.hasBias THEN {"loadC", "storeRes"}
                                              ELSE {"storeRes"},
                    !.c = Eval(plan.cAccessFct, Env),
                    !.res = Eval(resAccessFct, Env)]
    /\ m' = m + 1
    /\ pc' = "outer"
    /\ UNCHANGED <<op, phase, shapecomputed, emitted, plan, n, k, reductionVal,
                   nred, round, prev, parVars>>

\* The m loop is over: next n.
MLoopExit ==
    /\ phase = "run" /\ pc = "outer"
    /\ n < plan.outerBounds[1] /\ m >= plan.outerBounds[2]
    /\ n' = n + 1
    /\ m' = 0
    /\ access' = NoAccess
    /\ UNCHANGED <<op, buf, phase, shapecomputed, emitted, plan, k, pc,
                   reductionVal, alphaAB, nred, nstore, round, prev, parVars>>

\* The n loop is over: the nest has run to completion.
NLoopExit ==
    /\ phase = "run" /\ pc = "outer"
    /\ n >= plan.outerBounds[1]
    /\ phase' = "done"
    /\ access' = NoAccess
    /\ UNCHANGED <<op, buf, shapecomputed, emitted, plan, n, m, k, pc,
                   reductionVal, alphaAB, nred, nstore, round, prev, parVars>>

Next ==
    \/ Lower
    \/ BodyEntry
    \/ ReductionStep
    \/ PostReduction
    \/ MLoopExit
    \/ NLoopExit

Spec == Init /\ [][Next]_vars

----------------------------------------------------------------------------
(* A second lowering of the same operator without its C operand: the       *)
(* pattern is applied to a Gemm with the same A, B, alpha, beta and        *)
(* transposes and no bias, after the first nest has run.                   *)

RelowerWithoutBias ==
    /\ phase = "done" /\ round = 1 /\ op.hasBias
    /\ prev' = buf.res
    /\ round' = 2
    /\ op' = [op EXCEPT !.hasBias = FALSE, !.cShape = <<>>]
    /\ buf' = [buf EXCEPT !.C = NoBuffer, !.res = NoBuffer]
    /\ phase' = "lower"
    /\ shapecomputed' = "none"
    /\ emitted' = {}
    /\ plan' = NoPlan
    /\ n' = 0 /\ m' = 0 /\ k' = 0 /\ pc' = "outer" /\ nred' = 0
    /\ reductionVal' = Undef
    /\ alphaAB' = Undef
    /\ access' = NoAccess
    /\ nstore' = [idx \in {} |-> 0]
    /\ UNCHANGED parVars

InitPair ==
    /\ Init
    /\ op.hasBias
    /\ \A idx \in DOMAIN buf.C : IsZero(buf.C[idx])

NextPair == Next \/ RelowerWithoutBias

SpecPair == InitPair /\ [][NextPair]_vars

----------------------------------------------------------------------------
(* Execution of the bodies of the (n, m) loops in any order and with any   *)
(* interleaving of their steps, into a fresh result buffer, after the      *)
(* sequential execution has finished.                                      *)

\* Largest number of (n, m) bodies that are interleaved.
MaxParPairs == 4

\* The reduction value is an alloca inside the body of the (n, m) loops:
\* every body has its own.
AccSlotShared(p) == <<0, 0>>
AccSlot(p) == p

EnvOf(p) == [n |-> p[1], m |-> p[2], k |-> kP[p]]

seqVars == <<n, m, k, pc, reductionVal, alphaAB, access, nred, nstore>>

ParStart ==
    /\ phase = "done" /\ round = 1
    /\ prev' = buf.res
    /\ round' = 2
    /\ buf' = [buf EXCEPT !.res = Fresh(plan.outerBounds)]
    /\ phase' = "par"
    /\ pcP' = [p \in Pairs(plan) |-> "entry"]
    /\ kP' = [p \in Pairs(plan) |-> 0]
    /\ accP' = [p \in Pairs(plan) |-> Undef]
    /\ UNCHANGED <<op, shapecomputed, emitted, plan, seqVars>>

ParEntry(p) ==
    /\ phase = "par" /\ pcP[p] = "entry"
    /\ accP' = [accP EXCEPT ![AccSlot(p)] = ZeroInit(@, plan.zero)]
    /\ kP' = [kP EXCEPT ![p] = 0]
    /\ pcP' = [pcP EXCEPT ![p] = "inner"]
    /\ UNCHANGED <<op, buf, phase, shapecomputed, emitted, plan, round, prev,
                   seqVars>>

ParReduce(p) ==
    /\ phase = "par" /\ pcP[p] = "inner"
    /\ kP[p] < plan.innerBound
    /\ accP' = [accP EXCEPT ![AccSlot(p)] = ReductionStepVal(@, EnvOf(p))]
    /\ kP' = [kP EXCEPT ![p] = @ + 1]
    /\ UNCHANGED <<op, buf, phase, shapecomputed, emitted, plan, round, prev,
                   pcP, seqVars>>

ParPost(p) ==
    /\ phase = "par" /\ pcP[p] = "inner"
    /\ kP[p] >= plan.innerBound
    /\ buf' = [buf EXCEPT !.res =
                 StoreAt(@, Eval(resAccessFct, EnvOf(p)),
                         FinalVal(Scale(accP[AccSlot(p)]), EnvOf(p)))]
    /\ pcP' = [pcP EXCEPT ![p] = "done"]
    /\ UNCHANGED <<op, phase, shapecomputed, emitted, plan, round, prev,
                   kP, accP, seqVars>>

ParFinish ==
    /\ phase = "par"
    /\ \A p \in DOMAIN pcP : pcP[p] = "done"
    /\ phase' = "pardone"
    /\ UNCHANGED <<op, buf, shapecomputed, emitted, plan, round, prev,
                   parVars, seqVars>>

InitPar ==
    /\ Init
    /\ op.alpha = FromInt(2) /\ op.beta = FromInt(3)
    /\ dimsForOutput(op)[1] * dimsForOutput(op)[2] <= MaxParPairs
    /\ \A idx \in DOMAIN buf.C : ~IsZero(buf.C[idx])

NextPar ==
    \/ Next
    \/ ParStart
    \/ \E p \in DOMAIN pcP : ParEntry(p)
    \/ \E p \in DOMAIN pcP : ParReduce(p)
    \/ \E p \in DOMAIN pcP : ParPost(p)
    \/ ParFinish

SpecPar == InitPar /\ [][NextPar]_vars

----------------------------------------------------------------------------
(* Reference quantities of the properties below, computed from the         *)
(* operator instance and the operand buffers alone.                        *)

Rows == IF op.transA THEN op.aShape[2] ELSE op.aShape[1]
Red  == IF op.transA THEN op.aShape[1] ELSE op.aShape[2]
Cols == IF op.transB THEN op.bShape[1] ELSE op.bShape[2]
OutSpace == IndexSpace(<<Rows, Cols>>)

\* Explicit transposition of a rank 2 buffer.
Transpose(b, shape) ==
    [idx \in IndexSpace(<<shape[2], shape[1]>>) |-> b[<<idx[2], idx[1]>>]]

opA == IF op.transA THEN Transpose(buf.A, op.aShape) ELSE buf.A
opB == IF op.transB THEN Transpose(buf.B, op.bShape) ELSE buf.B

\* Sum over k' < kk of opA[i, k'] * opB[k', j].
RECURSIVE RefSum(_, _, _)
RefSum(i, j, kk) ==
    IF kk = 0 THEN FromInt(0)
    ELSE AddF(RefSum(i, j, kk - 1), MulF(opA[<<i, kk - 1>>], opB[<<kk - 1, j>>]))

\* C broadcast to the output shape: index 0 along a dimension of size 1.
BroadcastIdx(i, j) ==
    IF Len(op.cShape) = 0 THEN <<>>
    ELSE IF Len(op.cShape) = 1 THEN <<IF op.cShape[1] = 1 THEN 0 ELSE j>>
    ELSE <<IF op.cShape[1] = 1 THEN 0 ELSE i, IF op.cShape[2] = 1 THEN 0 ELSE j>>

\* The 2 x 2 buffer [[a, b], [c, d]].
M22(a, b, c, d) ==
    [idx \in IndexSpace(<<2, 2>>) |->
        FromInt(CASE idx = <<0, 0>> -> a [] idx = <<0, 1>> -> b
                  [] idx = <<1, 0>> -> c [] OTHER -> d)]

Before(idx, i, j) == idx[1] < i \/ (idx[1] = i /\ idx[2] < j)

----------------------------------------------------------------------------
\* C1: without a bias, when the nest has run to completion every output
\* element is alpha times the sum over k of opA[n,k] * opB[k,m], where opA and
\* opB are A and B transposed explicitly as transA and transB say.
C1_NoBiasContract ==
    (phase = "done" /\ ~op.hasBias) =>
        /\ DOMAIN buf.res = OutSpace
        /\ \A idx \in OutSpace :
             buf.res[idx] = MulF(op.alpha, RefSum(idx[1], idx[2], Red))

C1_Witness ==
    /\ phase = "done" /\ ~op.hasBias /\ ~op.transA /\ ~op.transB
    /\ op.alpha = FromInt(1)
    /\ buf.A = M22(1, 2, 3, 4) /\ buf.B = M22(5, 6, 7, 8)
    /\ buf.res = M22(19, 22, 43, 50)

\* C2: with a bias, when the nest has run to completion every output element
\* is alpha * Sum_k opA[n,k]*opB[k,m] + beta * C[idx(n,m)], idx being 0 along
\* a broadcast dimension of C and the loop variable along the others.
C2_BiasContract ==
    (phase = "done" /\ op.hasBias) =>
        /\ DOMAIN buf.res = OutSpace
        /\ \A idx \in OutSpace :
             buf.res[idx] =
                AddF(MulF(op.alpha, RefSum(idx[1], idx[2], Red)),
                     MulF(op.beta, buf.C[BroadcastIdx(idx[1], idx[2])]))

C2_Witness ==
    /\ phase = "done" /\ op.hasBias /\ ~op.transA /\ ~op.transB
    /\ op.alpha = FromInt(2) /\ op.beta = FromInt(3)
    /\ buf.A = M22(1, 2, 3, 4) /\ buf.B = M22(5, 6, 7, 8)
    /\ buf.C = M22(1, 1, 1, 1)
    /\ buf.res = M22(41, 47, 89, 103)

\* C3: the bias load of output element (n, m) has cRank indices; it reads
\* C[0,m] for C of shape (1,cols), C[n,0] for shape (rows,1), the single
\* element for shape (1,1) or a scalar, and C[m] (C[0] for size 1) for rank 1.
C3_BroadcastRead ==
    (phase = "run" /\ "loadC" \in access.kinds) =>
        LET nn == access.res[1]
            mm == access.res[2]
            cs == op.cShape
        IN
        /\ Len(access.c) = Len(cs)
        /\ Len(cs) = 0 => access.c = <<>>
        /\ Len(cs) = 1 => access.c = <<IF cs[1] = 1 THEN 0 ELSE mm>>
        /\ (Len(cs) = 2 /\ cs = <<1, Cols>>) => access.c = <<0, mm>>
        /\ (Len(cs) = 2 /\ cs = <<Rows, 1>>) => access.c = <<nn, 0>>
        /\ (Len(cs) = 2 /\ cs = <<1, 1>>) => access.c = <<0, 0>>

C3_Witness ==
    /\ phase = "run" /\ "loadC" \in access.kinds
    /\ Rows = 2 /\ Cols = 2 /\ op.cShape = <<1, 2>>
    /\ access.res = <<1, 1>> /\ access.c = <<0, 1>>

\* C5: when shapeHelper.Compute fails, nothing is emitted: no allocation, no
\* constants, no loops, no stores, no replacement of the operator.
C5_NothingEmittedOnFailure ==
    shapecomputed = "failure" => (emitted = {} /\ buf.res = NoBuffer)

\* C7: the nest has the three levels n < rows, m < cols, k < reduction size;
\* the reduction steps run once each in lexicographic order of (n, m, k), an
\* output element is stored once, after its k steps and before the next
\* pair, and the nest ends after rows * cols * K reduction steps.
C7_IterationOrder ==
    (phase \in {"run", "done"}) =>
        /\ plan.outerBounds = <<Rows, Cols>> /\ plan.innerBound = Red
        /\ n \in 0..Rows /\ m \in 0..Cols /\ k \in 0..Red
        /\ (phase = "run" /\ pc = "inner") =>
              /\ n < Rows /\ m < Cols
              /\ nred = (n * Cols + m) * Red + k
        /\ (phase = "run" /\ pc = "outer") => nred = (n * Cols + m) * Red
        /\ DOMAIN nstore = OutSpace
        /\ \A idx \in OutSpace :
              nstore[idx] = IF Before(idx, n, m) THEN 1 ELSE 0
        /\ phase = "run" => ENABLED Next
        /\ phase = "done" =>
              /\ nred = Rows * Cols * Red
              /\ \A idx \in OutSpace : nstore[idx] = 1

C7_Witness ==
    /\ phase = "done" /\ Rows = 2 /\ Cols = 2 /\ Red = 1 /\ nred = 4
    /\ \A idx \in OutSpace : nstore[idx] = 1

\* Sum over k' < kk of A[a_access] * B[b_access] for the pair (i, j).
RECURSIVE AccessSum(_, _, _)
AccessSum(i, j, kk) ==
    IF kk = 0 THEN FromInt(0)
    ELSE AddF(AccessSum(i, j, kk - 1),
              MulF(buf.A[IF op.transA THEN <<kk - 1, i>> ELSE <<i, kk - 1>>],
                   buf.B[IF op.transB THEN <<j, kk - 1>> ELSE <<kk - 1, j>>]))

\* C8: at the start of inner iteration k of (n, m) the accumulator is the sum
\* of A[a_access] * B[b_access] over the k' < k of that pair alone (zero
\* before the k loop), and for a reduction size of 0 the scaled value is
\* alpha * 0.
C8_Accumulator ==
    /\ (phase = "run" /\ pc = "inner") => reductionVal = AccessSum(n, m, k)
    /\ (phase = "run" /\ "storeRes" \in access.kinds /\ Red = 0) =>
          alphaAB = MulF(op.alpha, FromInt(0))

C8_Witness ==
    /\ phase = "run" /\ pc = "inner" /\ n = 1 /\ m = 1 /\ k = 0
    /\ reductionVal = FromInt(0)
    /\ alphaAB.c = "fin" /\ alphaAB.m > 0

\* C9 as stated: a participating dimension of C has index 0 exactly when its
\* size is 1, and the output loop variable for every other size.
C9_BroadcastIffOne ==
    (emitted # {} /\ op.hasBias) =>
        \A i \in 1..Len(op.cShape) :
            /\ plan.cAccessFct[i] = "0" <=> op.cShape[i] = 1
            /\ op.cShape[i] # 1 =>
                  plan.cAccessFct[i] = resAccessFct[i + 2 - Len(op.cShape)]

\* C9 amended: a participating dimension of C has the output loop variable
\* as index exactly when its size is greater than 1, and index 0 otherwise.
C9_MaterializedIffGreaterOne ==
    (emitted # {} /\ op.hasBias) =>
        /\ Len(plan.cAccessFct) = Len(op.cShape)
        /\ \A i \in 1..Len(op.cShape) :
            /\ op.cShape[i] > 1 =>
                  plan.cAccessFct[i] = resAccessFct[i + 2 - Len(op.cShape)]
            /\ op.cShape[i] <= 1 => plan.cAccessFct[i] = "0"

C9_Witness ==
    /\ emitted # {} /\ op.hasBias
    /\ op.cShape = <<0, 2>> /\ plan.cAccessFct = <<"0", "m">>

\* The accesses of the last step are inside the buffers they access.
C10_InBounds ==
    /\ "loadA" \in access.kinds => access.a \in IndexSpace(op.aShape)
    /\ "loadB" \in access.kinds => access.b \in IndexSpace(op.bShape)
    /\ "loadC" \in access.kinds => access.c \in IndexSpace(op.cShape)
    /\ "storeRes" \in access.kinds => access.res \in OutSpace

\* C10: in every step every load of A, B and C and every store to the output
\* is inside the physical bounds of the buffer it accesses, and A, B and C are
\* never written.
C10_MemorySafety ==
    /\ []C10_InBounds
    /\ [][buf'.A = buf.A /\ buf'.B = buf.B /\ buf'.C = buf.C]_vars

C10_Witness ==
    /\ phase = "run" /\ op.transA /\ op.transB /\ op.hasBias
    /\ op.aShape = <<2, 1>> /\ op.bShape = <<1, 2>>
    /\ "loadA" \in access.kinds
    /\ access.a = <<1, 0>> /\ access.b = <<0, 1>>

\* Identity of two values up to the sign of a zero.
SameNumber(x, y) == x = y \/ (IsZero(x) /\ IsZero(y))

\* C4 as stated: the output of the lowering without C is identical, element
\* for element, to the output of the lowering with an all-zero C and any beta.
C4_BitIdentical ==
    (phase = "done" /\ round = 2) => buf.res = prev

\* C4 amended: for a finite beta the two outputs have the same shape and
\* are identical element for element except for the sign of a zero.
C4_EqualUpToZeroSign ==
    (phase = "done" /\ round = 2 /\ op.beta.c = "fin") =>
        /\ DOMAIN buf.res = DOMAIN prev
        /\ \A idx \in DOMAIN prev : SameNumber(buf.res[idx], prev[idx])

C4_Witness ==
    /\ phase = "done" /\ round = 2 /\ op.beta = FromInt(3)
    /\ op.alpha = FromInt(-1) /\ Rows = 2 /\ Cols = 2 /\ Red = 2
    /\ ~op.transA /\ ~op.transB
    /\ prev = M22(-19, -22, -43, -50)
    /\ buf.res = prev

\* C6: executing the (n, m) bodies in any order and with any interleaving of
\* their steps leaves the output buffer that the sequential n-then-m
\* execution leaves.
C6_DataParallel ==
    /\ phase \in {"par", "pardone"} =>
          /\ DOMAIN buf.res = DOMAIN prev
          /\ \A p \in DOMAIN pcP : pcP[p] = "done" => buf.res[p] = prev[p]
    /\ phase = "pardone" => buf.res = prev

C6_Witness ==
    /\ phase = "par" /\ Rows = 2 /\ Cols = 2 /\ Red = 2 /\ op.hasBias
    /\ pcP[<<1, 1>>] = "done" /\ pcP[<<0, 1>>] = "entry"
    /\ pcP[<<0, 0>>] = "inner" /\ kP[<<0, 0>>] = 1
    /\ buf.res[<<1, 1>>] = prev[<<1, 1>>]
    /\ prev[<<1, 1>>].c = "fin"

====
